---- MODULE Spec2Model ----
(***************************************************************************)
(* Attendance optimizer of lpp-smartskipping: the utility scorer           *)
(* (calculate_aps), the fractional LP optimizer                            *)
(* (modeluserwants.py: optimize_attendance_simplex) and the integer        *)
(* branch-and-bound optimizer (cuttinngplanefinal.py:                      *)
(* optimize_attendance_integer).                                           *)
(*                                                                         *)
(* Number representation (exact fixed point, no floats):                   *)
(*   ratings, travelTime, timeCommitment : tenths                          *)
(*   weights                             : 1e-4                            *)
(*   priority multipliers                : hundredths                      *)
(*   APS, aps_contrib, totalValue        : thousandths (3 decimals)        *)
(*   target percentage                   : hundredths of a percent         *)
(*   LP variables x_i, fractions         : 1/Unit                          *)
(*   LP objective                        : 1/(1000*Unit)                   *)
(* linprog is modelled by its contract: it fails when the LP is            *)
(* infeasible, and otherwise returns SOME optimal point; the points are    *)
(* taken from a grid that contains every vertex of the LPs that occur.     *)
(***************************************************************************)
EXTENDS Integers, Sequences, FiniteSets, TLC

\* ------------------------------------------------------------------ bounds
\* Largest number of sessions in a timetable.
MaxN == 3
\* Largest recursion depth of branch_and_bound the interpreter allows before
\* it raises RecursionError (Python's recursion limit, scaled down).
MaxDepth == 2

\* ------------------------------------------------------------------ data
PROFESSORS ==
    [id \in 1..16 |->
        CASE id = 1  -> [id |-> 1,  name |-> "Prof. B. Biswal",          pv |-> 72, le |-> 65, se |-> 70, ar |-> 55]
          [] id = 2  -> [id |-> 2,  name |-> "Prof. Shobha Bagai",       pv |-> 85, le |-> 78, se |-> 80, ar |-> 92]
          [] id = 3  -> [id |-> 3,  name |-> "Prof. Pankaj Tyagi",       pv |-> 70, le |-> 65, se |-> 68, ar |-> 85]
          [] id = 4  -> [id |-> 4,  name |-> "Prof. Swati Arora",        pv |-> 65, le |-> 58, se |-> 55, ar |-> 70]
          [] id = 5  -> [id |-> 5,  name |-> "Prof. Mahima Kaushik",     pv |-> 78, le |-> 72, se |-> 75, ar |-> 80]
          [] id = 6  -> [id |-> 6,  name |-> "Prof. Nirmal Yadav",       pv |-> 82, le |-> 75, se |-> 80, ar |-> 88]
          [] id = 7  -> [id |-> 7,  name |-> "Prof. Sonam Tanwar",       pv |-> 75, le |-> 68, se |-> 72, ar |-> 78]
          [] id = 8  -> [id |-> 8,  name |-> "Prof. Asani Bhaduri",      pv |-> 78, le |-> 70, se |-> 73, ar |-> 82]
          [] id = 9  -> [id |-> 9,  name |-> "Prof. Harendra Pal Singh", pv |-> 73, le |-> 67, se |-> 70, ar |-> 75]
          [] id = 10 -> [id |-> 10, name |-> "Prof. Sachin Kumar",       pv |-> 76, le |-> 69, se |-> 72, ar |-> 79]
          [] id = 11 -> [id |-> 11, name |-> "Prof. J.S. Purohit",       pv |-> 71, le |-> 64, se |-> 67, ar |-> 73]
          [] id = 12 -> [id |-> 12, name |-> "Prof. Dorje Dawa",         pv |-> 68, le |-> 62, se |-> 65, ar |-> 70]
          [] id = 13 -> [id |-> 13, name |-> "Prof. Shobha Rai",         pv |-> 74, le |-> 68, se |-> 71, ar |-> 76]
          [] id = 14 -> [id |-> 14, name |-> "Prof. Anjani Verma",       pv |-> 72, le |-> 66, se |-> 69, ar |-> 74]
          [] id = 15 -> [id |-> 15, name |-> "Prof. Manish Kumar",       pv |-> 77, le |-> 71, se |-> 74, ar |-> 81]
          [] OTHER   -> [id |-> 16, name |-> "Prof. Sanjeewani Sehgal",  pv |-> 75, le |-> 69, se |-> 72, ar |-> 77]]

DAYS == <<"Monday", "Tuesday", "Wednesday", "Thursday", "Friday">>

TIME_SLOTS ==
    [id \in 1..6 |->
        CASE id \in {1, 2} -> [id |-> id, block |-> "morning"]
          [] id \in {3, 4} -> [id |-> id, block |-> "midday"]
          [] OTHER         -> [id |-> id, block |-> "afternoon"]]

PRIORITY_LEVELS == <<"Very High", "High", "Medium", "Low", "Avoid">>

PRIORITY_MULTIPLIER ==
    [level \in {"Very High", "High", "Medium", "Low", "Avoid"} |->
        CASE level = "Very High" -> 140
          [] level = "High"      -> 125
          [] level = "Medium"    -> 110
          [] level = "Low"       -> 100
          [] OTHER               -> 80]

\* The returned "no result" value (Python None).
None == [none |-> TRUE]

\* ------------------------------------------------------------------ arithmetic
\* dict.get(key, default)
Get(d, key, default) == IF key \in DOMAIN d THEN d[key] ELSE default

\* round(a / b) to the nearest integer, ties to even (Python's round), b > 0.
RoundDiv(a, b) ==
    LET q == a \div b
        r == a % b
    IN  IF 2 * r < b THEN q
        ELSE IF 2 * r > b THEN q + 1
        ELSE IF q % 2 = 0 THEN q ELSE q + 1

\* math.ceil(a / b), b > 0.
CeilDiv(a, b) == -((-a) \div b)

Min(a, b) == IF a <= b THEN a ELSE b
Max(a, b) == IF a >= b THEN a ELSE b

RECURSIVE SumTo(_, _)
\* f[1] + ... + f[k]
SumTo(f, k) == IF k = 0 THEN 0 ELSE f[k] + SumTo(f, k - 1)

RECURSIVE SumOver(_, _)
\* sum of f[e] over the elements e of the finite set S
SumOver(S, f) ==
    IF S = {} THEN 0
    ELSE LET e == CHOOSE e \in S : TRUE IN f[e] + SumOver(S \ {e}, f)

RECURSIVE SortedSeq(_)
\* the elements of a finite set of integers, ascending
SortedSeq(S) ==
    IF S = {} THEN <<>>
    ELSE LET m == CHOOSE m \in S : \A e \in S : m <= e
         IN  <<m>> \o SortedSeq(S \ {m})

\* sum(row[i] * x[i])
Dot(row, x) == SumTo([i \in 1..Len(row) |-> row[i] * x[i]], Len(row))

\* ------------------------------------------------------------------ state
VARIABLES
    timetable,        \* the timetable dict, in insertion order: <<[key, cls], ...>>
    student_profile,  \* {"travelTime", "timeCommitment"} (tenths)
    priorities,       \* instructor id -> priority level
    desired,          \* desired_attendance_percent, hundredths of a percent
    mode,             \* which optimizer was called: "none", "integer", "simplex"
    pc,               \* position of the call
    locals,           \* the local variables of the call, set before the first solve
    stack,            \* pending branch_and_bound calls, innermost first
    best_solution,    \* the incumbent of branch_and_bound
    lpx,              \* result.x of the fractional optimizer's last solve
    lpLog,            \* the fractional optimizer's linprog calls: the LP and its outcome
    lpCalls,          \* number of linprog calls made
    result,           \* the value returned (None or the result dict)
    fp,               \* how round(x, 3) resolves an exact tie in doubles
    history           \* the calls completed before the current one

vars == <<timetable, student_profile, priorities, desired, mode, pc, locals, stack,
          best_solution, lpx, lpLog, lpCalls, result, fp, history>>

inputs == <<timetable, student_profile, priorities, desired>>

\* ------------------------------------------------------------------ scorer
find_professor(pid) == IF pid \in DOMAIN PROFESSORS THEN PROFESSORS[pid] ELSE None

timeBlockRatings == [morning |-> 75, midday |-> 70, afternoon |-> 65]

weights == [w1 |-> 1476, w2 |-> 1456, w3 |-> 1370, w4 |-> 1356,
            w5 |-> 1203, w6 |-> 1225, w7 |-> 935, w8 |-> 979]

\* round(v, 3) of a double v whose exact value is a / 10000 thousandths.  The
\* double differs from the exact value by less than 1e-12, so round() returns
\* the nearest thousandth; when the exact value lies halfway between two
\* thousandths the double lies on one side or the other, as fp says.
Round3(a) ==
    IF a % 10000 = 5000
    THEN (IF fp = "up" THEN a \div 10000 + 1 ELSE a \div 10000)
    ELSE RoundDiv(a, 10000)

\* calculate_aps that scores an unknown instructor with neutral ratings (5.0)
\* instead of returning 0.0 (mutant).
calculate_aps_neutral(instructor_id, time_block, sp, pr) ==
    RoundDiv((weights.w1 * (IF instructor_id \in DOMAIN PROFESSORS
                            THEN PROFESSORS[instructor_id].pv ELSE 50)
              + weights.w2 * (IF instructor_id \in DOMAIN PROFESSORS
                              THEN PROFESSORS[instructor_id].le ELSE 50)
              + weights.w3 * (IF instructor_id \in DOMAIN PROFESSORS
                              THEN PROFESSORS[instructor_id].se ELSE 50)
              + weights.w4 * (IF instructor_id \in DOMAIN PROFESSORS
                              THEN PROFESSORS[instructor_id].ar ELSE 50)
              + weights.w5 * Get(timeBlockRatings, time_block, 70)
              + weights.w6 * 50
              - weights.w7 * Get(sp, "travelTime", 0)
              - weights.w8 * Get(sp, "timeCommitment", 0))
             * Get(PRIORITY_MULTIPLIER, Get(pr, instructor_id, "Medium"), 110),
             10000)

\* calculate_aps without the priority multiplier (mutant).
calculate_aps_unscaled(instructor_id, time_block, sp, pr) ==
    IF instructor_id \notin DOMAIN PROFESSORS THEN 0
    ELSE Round3((weights.w1 * PROFESSORS[instructor_id].pv
                 + weights.w2 * PROFESSORS[instructor_id].le
                 + weights.w3 * PROFESSORS[instructor_id].se
                 + weights.w4 * PROFESSORS[instructor_id].ar
                 + weights.w5 * Get(timeBlockRatings, time_block, 70)
                 + weights.w6 * 50
                 - weights.w7 * Get(sp, "travelTime", 0)
                 - weights.w8 * Get(sp, "timeCommitment", 0)) * 100)

\* calculate_aps with a hidden counter of the calls made so far added to the
\* score (mutant).
calculate_aps_counting(instructor_id, time_block, sp, pr) ==
    calculate_aps_neutral(instructor_id, time_block, sp, pr) + Len(history)

\* calculate_aps with the sign of the score reversed (mutant).
calculate_aps_negated(instructor_id, time_block, sp, pr) ==
    -calculate_aps_unscaled(instructor_id, time_block, sp, pr)

\* APS in thousandths.
calculate_aps(instructor_id, time_block, sp, pr) ==
    LET prof == find_professor(instructor_id)
    IN  IF prof = None THEN 0
        ELSE
        LET TB == Get(timeBlockRatings, time_block, 70)
            HS == 50
            aps_base == weights.w1 * prof.pv + weights.w2 * prof.le
                        + weights.w3 * prof.se + weights.w4 * prof.ar
                        + weights.w5 * TB + weights.w6 * HS
                        - weights.w7 * Get(sp, "travelTime", 0)
                        - weights.w8 * Get(sp, "timeCommitment", 0)
            level == Get(pr, instructor_id, "Medium")
            mult == Get(PRIORITY_MULTIPLIER, level, 110)
            aps_final == aps_base * mult
        IN  Round3(aps_final)

\* ------------------------------------------------------------------ inputs
\* The (instructor id, slot id) pairs a session may have: instructor 2 in the
\* morning and in the afternoon, instructor 4 in the morning, and an id that
\* is absent from PROFESSORS.
SessionChoices == {<<2, 1>>, <<2, 5>>, <<4, 1>>, <<99, 1>>}
\* Targets, hundredths of a percent: below 0, 0, 33%, 33.34%, 50%, 75%, 100%,
\* above 100.
TargetChoices == {-500, 0, 3300, 3334, 5000, 7500, 10000, 12000}
ProfileChoices == {[travelTime |-> 20, timeCommitment |-> 5]}
PriorityChoices == {[i \in {} |-> "Medium"], [i \in {4} |-> "Very High"]}

\* One session per day, so the (day, slotId) keys are distinct.
MakeTimetable(picks) ==
    [i \in 1..Len(picks) |->
        [key |-> <<DAYS[i], picks[i][2]>>,
         cls |-> [day |-> DAYS[i], slotId |-> picks[i][2], instructorId |-> picks[i][1]]]]

Timetables ==
    { MakeTimetable(picks) :
        picks \in UNION { [1..k -> SessionChoices] : k \in 0..MaxN } }

\* ------------------------------------------------------------------ LP
\* LP variables are multiples of 1/Unit: Unit is divisible by 10000 (targets
\* with two decimals) and by 2 (vertex denominators, see GridVals).
Unit == 3 * 10000

\* Coordinates the integer optimizer's LP relaxations may take: 0, 1/2, 1.
\* For nn <= 4 this grid contains every vertex of every LP of the search.  The
\* rows are the all-ones equality (always tight), unit rows (bounds and
\* branches) and 0/1 rows up to sign (instructor rows, cover cuts), with
\* integer right-hand sides, so a vertex is the solution of a nonsingular
\* nn x nn system that contains the all-ones row.  Subtracting a 3-element row
\* from it leaves a unit row, and a unit row reduces the determinant to one of
\* a 3 x 3 0/1 matrix (at most 2); with only 2-element rows the system is the
\* incidence matrix of a graph with nn edges (determinant 0 or 2).  By
\* Cramer's rule the coordinates are multiples of 1/2.
GridVals(nn) == {0, Unit \div 2, Unit}

\* Coordinates the fractional optimizer's LP may take: the rows form a laminar
\* family (totally unimodular), so a vertex coordinate is 0, 1, frac(R) or
\* 1 - frac(R) for the right-hand side R; 1/2 adds non-vertex optima.
FracVals(R) == {0, Unit \div 2, Unit, R % Unit, (Unit - (R % Unit)) % Unit}

Minimum(S) == CHOOSE m \in S : \A o \in S : m <= o

\* The points of the grid that satisfy the bounds and every row of the LP
\* p = [c, A_ub, b_ub, A_eq, b_eq, bounds, vals] (right-hand sides and bounds
\* in 1/Unit).
Satisfies(p, x) ==
    /\ \A i \in 1..Len(p.c) : p.bounds[i][1] <= x[i] /\ x[i] <= p.bounds[i][2]
    /\ \A j \in 1..Len(p.A_ub) : Dot(p.A_ub[j], x) <= p.b_ub[j]
    /\ \A j \in 1..Len(p.A_eq) : Dot(p.A_eq[j], x) = p.b_eq[j]

\* The feasible points of the LP p.  When the first equality row has
\* coefficient 1 on the last variable, that variable is eliminated: the same
\* set, enumerated faster.
Feasible(p) ==
    IF Len(p.c) >= 1 /\ Len(p.A_eq) >= 1 /\ p.A_eq[1][Len(p.c)] = 1
    THEN { x \in { Append(y, p.b_eq[1]
                             - SumTo([i \in 1..(Len(p.c) - 1) |-> p.A_eq[1][i] * y[i]],
                                     Len(p.c) - 1)) :
                   y \in [1..(Len(p.c) - 1) -> p.vals] } :
             x[Len(p.c)] \in p.vals /\ Satisfies(p, x) }
    ELSE { x \in [1..Len(p.c) -> p.vals] : Satisfies(p, x) }

\* The minimizers of cc . x over the set feas.
ArgMin(cc, feas) ==
    IF feas = {} THEN {}
    ELSE UNION { { x \in feas : Dot(cc, x) = m } :
                 m \in { Minimum(objs) : objs \in { { Dot(cc, y) : y \in feas } } } }

\* scipy.optimize.linprog(c, A_ub, b_ub, A_eq, b_eq, bounds): the set of
\* points it may return (every optimal point of the grid); empty when the LP
\* is infeasible (success = False).
linprog(p) == UNION { ArgMin(p.c, feas) : feas \in { Feasible(p) } }

\* ------------------------------------------------------------------ shared set-up
slot_block(slotId) ==
    LET slot == IF slotId \in DOMAIN TIME_SLOTS THEN TIME_SLOTS[slotId] ELSE None
    IN  IF slot # None THEN slot.block ELSE "midday"

\* The entry built in place: cls["aps"] = aps and cls["key"] = key written
\* into the timetable's own dict, which is then appended (mutant).
ClassEntry_inplace(cls, aps, key) ==
    [stored |-> [day |-> cls.day, slotId |-> cls.slotId, instructorId |-> cls.instructorId,
                 aps |-> aps, key |-> key],
     source |-> [day |-> cls.day, slotId |-> cls.slotId, instructorId |-> cls.instructorId,
                 aps |-> aps, key |-> key]]

\* {**cls, "aps": aps, "key": key}: a new dict with the session's fields and
\* the two new keys (stored), and the timetable's dict as the expression
\* leaves it (source).
ClassEntry(cls, aps, key) ==
    [stored |-> [day |-> cls.day, slotId |-> cls.slotId, instructorId |-> cls.instructorId,
                 aps |-> aps, key |-> key],
     source |-> cls]

\* class_list: every session with its APS and its timetable key.
BuildClassList(tt, sp, pr) ==
    [i \in 1..Len(tt) |->
        ClassEntry(tt[i].cls,
                   calculate_aps(tt[i].cls.instructorId, slot_block(tt[i].cls.slotId), sp, pr),
                   tt[i].key).stored]

\* The timetable after class_list has been built from it.
TimetableAfterBuild(tt, sp, pr) ==
    [i \in 1..Len(tt) |->
        [key |-> tt[i].key,
         cls |-> ClassEntry(tt[i].cls,
                            calculate_aps(tt[i].cls.instructorId,
                                          slot_block(tt[i].cls.slotId), sp, pr),
                            tt[i].key).source]]

\* d_pct without the clamp to [0, 100] (mutant).
d_pct_noclamp(des) == des

\* d_pct, in 1/10000: max(0, min(100, desired)) / 100
d_pct(des) == Max(0, Min(10000, des))

weeks == 20

\* The objective with the sign of the APS kept (mutant): the minimizer then
\* minimizes the utility.
ObjectiveCoeffs_unnegated(cl) == [i \in 1..Len(cl) |-> cl[i].aps]

\* c = [-aps]: the objective of the minimizer.
ObjectiveCoeffs(cl) == [i \in 1..Len(cl) |-> -cl[i].aps]

\* The empty-timetable test left out (mutant).
NothingToOptimize_never(nn) == FALSE

\* "if n == 0: return None"
NothingToOptimize(nn) == nn = 0

\* instructor_classes: instructor id -> the indices of its sessions.
instructor_classes(cl) ==
    [iid \in { cl[i].instructorId : i \in 1..Len(cl) } |->
        { i \in 1..Len(cl) : cl[i].instructorId = iid }]

\* The instructors in dict order (order of first appearance), each as the
\* index of its first session.
FirstIndices(cl) ==
    SortedSeq({ i \in 1..Len(cl) : \A j \in 1..(i - 1) :
                    cl[j].instructorId # cl[i].instructorId })

\* One row per instructor with >= 2 sessions: -1 on that instructor's sessions.
InstructorRows(cl) ==
    LET firsts == SelectSeq(FirstIndices(cl),
                    LAMBDA f : Cardinality({ i \in 1..Len(cl) :
                                   cl[i].instructorId = cl[f].instructorId }) >= 2)
    IN  [k \in 1..Len(firsts) |->
            [i \in 1..Len(cl) |->
                IF cl[i].instructorId = cl[firsts[k]].instructorId THEN -1 ELSE 0]]

f_key(cls) == cls.day \o "-" \o ToString(cls.slotId)

InstructorName(iid) ==
    LET prof == find_professor(iid)
    IN  IF prof # None THEN prof.name ELSE "#" \o ToString(iid)

\* ------------------------------------------------------------------ integer optimizer
\* The required count rounded down instead of up (mutant).
required_per_week_floor(nn, des) == (nn * d_pct(des)) \div 10000

\* int(math.ceil(n * d_pct))
required_per_week(nn, des) == CeilDiv(nn * d_pct(des), 10000)

\* ---- the same computation in IEEE-754 doubles, for whole percentages ----
\* The code computes d_pct = p / 100.0 and ceil(n * d_pct) in doubles.  A whole
\* percentage q is an exact double; q / 100.0 is the double nearest to the
\* rational a / b = q / 100, and n * d_pct the double nearest to the exact
\* product.  Both roundings are decided here with remainders modulo b, so no
\* number exceeds 32 bits.

RECURSIVE Gcd(_, _)
Gcd(a, b) == IF b = 0 THEN a ELSE Gcd(b, a % b)

RECURSIVE Pow2(_)
Pow2(k) == IF k = 0 THEN 1 ELSE 2 * Pow2(k - 1)

\* 2^e modulo b.
RECURSIVE Pow2Mod(_, _)
Pow2Mod(e, b) == IF e = 0 THEN 1 % b ELSE (2 * Pow2Mod(e - 1, b)) % b

\* floor(log2(m)) for m >= 1: the binary exponent of the double m.
RECURSIVE Log2(_)
Log2(m) == IF m < 2 THEN 0 ELSE 1 + Log2(m \div 2)

\* The least j with a * 2^j >= b: a / b lies in [2^-j, 2^(1-j)).
RECURSIVE Binade(_, _)
Binade(a, b) == IF a >= b THEN 0 ELSE 1 + Binade(2 * a, b)

\* The double q / 100.0 for a whole percentage q in 0..100, as the rational
\* a / b it approximates, its binade j and its rounding error rho:
\* the double is a / b + rho / (b * 2^(52 + j)), where the 53-bit significand
\* is a * 2^(52 + j) / b rounded to nearest (no tie arises: a tie needs b to be
\* a power of two, and then the quotient is exact).
d_pct_double(q) ==
    IF q = 0 THEN [a |-> 0, b |-> 1, j |-> 0, rho |-> 0]
    ELSE LET g == Gcd(q, 100)
             a == q \div g
             b == 100 \div g
             j == Binade(a, b)
             rem == (a * Pow2Mod(52 + j, b)) % b
         IN  [a |-> a, b |-> b, j |-> j,
              rho |-> IF 2 * rem > b THEN b - rem ELSE -rem]

\* int(math.ceil(n * d_pct)) in doubles.  When n * a / b is not an integer it
\* is at least 1/100 away from one and the rounding errors (below 2^-47) do
\* not change the ceiling.  When it is an integer m, the exact product is
\* m + n * rho / (b * 2^(52 + j)); it rounds to a double above m exactly when
\* the excess is more than half the spacing 2^(k - 52) of the doubles at m,
\* k = floor(log2(m)) (a tie rounds to m, whose significand is even), and the
\* ceiling is then m + 1.
required_per_week_double(nn, q) ==
    LET d == d_pct_double(q)
        t == nn * d.a
        m == t \div d.b
    IN  IF t % d.b # 0 THEN m + 1
        ELSE IF m >= 1 /\ 2 * nn * d.rho > d.b * Pow2(d.j + Log2(m)) THEN m + 1
        ELSE m

\* No instructor-minimum rows in the integer LP (mutant).
A_ub_base_empty(cl) == <<>>

\* A_ub_base: the instructor-minimum rows.
A_ub_base(cl) == InstructorRows(cl)

\* The local variables of optimize_attendance_integer before the search.
IntegerLocals(cl, des) ==
         [class_list |-> cl,
          n |-> Len(cl),
          total_classes_per_week |-> Len(cl),
          required_per_week |-> required_per_week(Len(cl), des),
          total_classes_semester |-> Len(cl) * weeks,
          required_classes_semester |-> required_per_week(Len(cl), des) * weeks,
          c |-> ObjectiveCoeffs(cl),
          instructor_classes |-> instructor_classes(cl),
          A_ub_base |-> A_ub_base(cl),
          b_ub_base |-> [k \in 1..Len(A_ub_base(cl)) |-> -2 * Unit],
          A_eq_base |-> << [i \in 1..Len(cl) |-> 1] >>,
          b_eq_base |-> << required_per_week(Len(cl), des) * Unit >>,
          bounds |-> [i \in 1..Len(cl) |-> <<0, Unit>>]]

\* The LP relaxation without the equality sum(x) = required_per_week (mutant).
solve_lp_no_equality(add_A_ub, add_b_ub, add_A_eq, add_b_eq) ==
    UNION { linprog(p) :
            p \in { [c |-> locals.c,
                     A_ub |-> locals.A_ub_base \o add_A_ub,
                     b_ub |-> locals.b_ub_base \o add_b_ub,
                     A_eq |-> add_A_eq,
                     b_eq |-> add_b_eq,
                     bounds |-> locals.bounds,
                     vals |-> GridVals(locals.n)] } }

\* solve_lp: the LP relaxation with the base rows and the rows of the path.
solve_lp(add_A_ub, add_b_ub, add_A_eq, add_b_eq) ==
    UNION { linprog(p) :
            p \in { [c |-> locals.c,
                     A_ub |-> locals.A_ub_base \o add_A_ub,
                     b_ub |-> locals.b_ub_base \o add_b_ub,
                     A_eq |-> locals.A_eq_base \o add_A_eq,
                     b_eq |-> locals.b_eq_base \o add_b_eq,
                     bounds |-> locals.bounds,
                     vals |-> GridVals(locals.n)] } }

\* best_solution["x"] is None: no incumbent yet (no 0/1 vector equals it).
NoX == << -1 >>
\* -1e99: the objective of "no incumbent yet".
NoIncumbentObj == -2000000000
\* 1e-6 in objective units.
Tol6 == Unit \div 1000
\* 1e-6 and 1e-8 in units of x (both below one unit).
Eps6 == Unit \div 1000000
Eps8 == Unit \div 100000000

Abs(a) == IF a < 0 THEN -a ELSE a
\* round(xi) for 0 <= xi <= 1
RoundX(xi) == RoundDiv(xi, Unit) * Unit

\* fractional_indices = [i : abs(x_i - round(x_i)) > 1e-6]
fractional_indices(x) == { i \in 1..Len(x) : Abs(x[i] - RoundX(x[i])) > Eps6 }
\* frac_vars = [i : 1e-8 < x_i < 1 - 1e-8]
frac_vars(x) == { i \in 1..Len(x) : x[i] > Eps8 /\ x[i] < Unit - Eps8 }

\* The first non-integral variable, whatever its distance from 0.5 (mutant).
branch_var_first(x) ==
    CHOOSE i \in fractional_indices(x) : \A j \in fractional_indices(x) : i <= j

\* frac_scores sorted by |x_i - 0.5| (stable sort): the first entry.
branch_var(x) ==
    CHOOSE i \in fractional_indices(x) :
        \A j \in fractional_indices(x) :
            \/ Abs(2 * x[i] - Unit) < Abs(2 * x[j] - Unit)
            \/ (Abs(2 * x[i] - Unit) = Abs(2 * x[j] - Unit) /\ i <= j)

\* The row of the first variable, whatever the branch variable (mutant).
UnitRow_first(b, nn) == [i \in 1..nn |-> IF i = 1 THEN 1 ELSE 0]

UnitRow(b, nn) == [i \in 1..nn |-> IF i = b THEN 1 ELSE 0]

Frame(A_ub, b_ub, A_eq, b_eq, depth) ==
    [add_A_ub |-> A_ub, add_b_ub |-> b_ub, add_A_eq |-> A_eq, add_b_eq |-> b_eq,
     depth |-> depth]

\* No bound test: every node with a feasible LP is examined further (mutant).
Pruned_never(obj_val, best) == FALSE

\* obj_val <= best_solution["obj"] + 1e-6
Pruned(obj_val, best) == obj_val <= best.obj + Tol6

\* obj_val > best_solution["obj"]
Improves(obj_val, best) == obj_val > best.obj

\* A cut with the right-hand side one below the floor (mutant).
CoverCut_minus_one(f, x) ==
    LET fv == frac_vars(x)
        rhs == SumOver(fv, x) \div Unit - 1
    IN  [try |-> Cardinality(fv) >= 2 /\ rhs < Cardinality(fv),
         A_ub |-> f.add_A_ub \o << [i \in 1..Len(x) |-> IF i \in fv THEN 1 ELSE 0] >>,
         b_ub |-> f.add_b_ub \o << rhs * Unit >>]

\* The cover cut of a fractional node with relaxed solution x:
\* sum of the strictly fractional variables <= floor of their sum.
CoverCut(f, x) ==
    LET fv == frac_vars(x)
        rhs == SumOver(fv, x) \div Unit
    IN  [try |-> Cardinality(fv) >= 2 /\ rhs < Cardinality(fv),
         A_ub |-> f.add_A_ub \o << [i \in 1..Len(x) |-> IF i \in fv THEN 1 ELSE 0] >>,
         b_ub |-> f.add_b_ub \o << rhs * Unit >>]

\* Standard branching only when no cover-cut child was explored (mutant).
CallOrder_cut_or_branch(cut_calls, branch0, branch1) ==
    IF cut_calls # <<>> THEN cut_calls ELSE << branch0, branch1 >>

\* The recursive calls of a fractional node in the order the code makes them:
\* the cover-cut child if there is one, then x_b <= 0, then x_b = 1; each
\* call returns before the next is made, and the two branches do not depend
\* on what the cut child did.
CallOrder(cut_calls, branch0, branch1) == cut_calls \o << branch0, branch1 >>

\* The calls a fractional node with relaxed solution x makes, in call order:
\* the cover-cut child (when the cut applies and its LP is feasible), the
\* x_b <= 0 child, the x_b = 1 child; and the number of extra LP solves.
Children(f, x) ==
    UNION { { [calls |->
                 CallOrder(
                     IF cut.try /\ solve_lp(cut.A_ub, cut.b_ub, f.add_A_eq, f.add_b_eq) # {}
                     THEN << Frame(cut.A_ub, cut.b_ub, f.add_A_eq, f.add_b_eq, f.depth + 1) >>
                     ELSE <<>>,
                     Frame(f.add_A_ub \o << UnitRow(b, Len(x)) >>, f.add_b_ub \o << 0 >>,
                           f.add_A_eq, f.add_b_eq, f.depth + 1),
                     Frame(f.add_A_ub, f.add_b_ub,
                           f.add_A_eq \o << UnitRow(b, Len(x)) >>, f.add_b_eq \o << Unit >>,
                           f.depth + 1)),
               solves |-> IF cut.try THEN 1 ELSE 0] : b \in { branch_var(x) } } :
            cut \in { CoverCut(f, x) } }

\* optimize_attendance_integer up to the first call of branch_and_bound.
CallInteger ==
    /\ pc = "call"
    /\ mode \in {"none", "integer"}
    /\ mode' = "integer"
    /\ \E loc \in { IntegerLocals(BuildClassList(timetable, student_profile, priorities),
                                  desired) } :
        /\ locals' = loc
        /\ IF NothingToOptimize(loc.n)
           THEN /\ pc' = "done"
                /\ result' = None
                /\ stack' = stack
           ELSE /\ pc' = "bb"
                /\ result' = result
                /\ stack' = << Frame(<<>>, <<>>, <<>>, <<>>, 0) >>
    /\ best_solution' = [obj |-> NoIncumbentObj, x |-> NoX]
    /\ timetable' = TimetableAfterBuild(timetable, student_profile, priorities)
    /\ UNCHANGED <<student_profile, priorities, desired, fp, history, lpx, lpLog, lpCalls>>

\* One call of branch_and_bound, up to its return or its first recursive call;
\* the recursive calls it makes are pushed in call order.
BranchAndBound ==
    /\ pc = "bb"
    /\ stack # <<>>
    /\ \E f \in { Head(stack) } :
       \E opt \in { solve_lp(f.add_A_ub, f.add_b_ub, f.add_A_eq, f.add_b_eq) } :
         IF opt = {}
         THEN \* infeasible or failed
              /\ stack' = Tail(stack)
              /\ lpCalls' = lpCalls + 1
              /\ UNCHANGED <<best_solution, pc>>
         ELSE \E x \in opt :
              \E obj_val \in { -Dot(locals.c, x) } :
                IF Pruned(obj_val, best_solution)
                THEN /\ stack' = Tail(stack)
                     /\ lpCalls' = lpCalls + 1
                     /\ UNCHANGED <<best_solution, pc>>
                ELSE IF fractional_indices(x) = {}
                THEN /\ best_solution' =
                          IF Improves(obj_val, best_solution)
                          THEN [obj |-> obj_val,
                                x |-> [i \in 1..Len(x) |-> RoundDiv(x[i], Unit)]]
                          ELSE best_solution
                     /\ stack' = Tail(stack)
                     /\ lpCalls' = lpCalls + 1
                     /\ pc' = pc
                ELSE \E ch \in Children(f, x) :
                     /\ lpCalls' = lpCalls + 1 + ch.solves
                     /\ best_solution' = best_solution
                     /\ IF f.depth >= MaxDepth
                        THEN \* the recursive call raises RecursionError
                             /\ pc' = "error"
                             /\ stack' = stack
                        ELSE /\ pc' = pc
                             /\ stack' = ch.calls \o Tail(stack)
    /\ UNCHANGED <<inputs, fp, history, mode, locals, lpx, lpLog, result>>

\* The index of the session stored under key k (the last one with that key).
IndexOfKey(cl, k) ==
    CHOOSE i \in 1..Len(cl) :
        /\ f_key(cl[i]) = k
        /\ \A j \in (i + 1)..Len(cl) : f_key(cl[j]) # k

\* attendance_selection that credits every session with its APS, selected or
\* not (mutant).
attendance_selection_credit_all(cl, bx) ==
    [k \in { f_key(cl[i]) : i \in 1..Len(cl) } |->
        [day |-> cl[IndexOfKey(cl, k)].day,
         slotId |-> cl[IndexOfKey(cl, k)].slotId,
         instructorId |-> cl[IndexOfKey(cl, k)].instructorId,
         aps |-> cl[IndexOfKey(cl, k)].aps,
         key |-> cl[IndexOfKey(cl, k)].key,
         selected |-> bx[IndexOfKey(cl, k)],
         aps_contrib |-> cl[IndexOfKey(cl, k)].aps]]

\* attendance_selection: key -> the session with its 0/1 decision.
attendance_selection(cl, bx) ==
    [k \in { f_key(cl[i]) : i \in 1..Len(cl) } |->
        [day |-> cl[IndexOfKey(cl, k)].day,
         slotId |-> cl[IndexOfKey(cl, k)].slotId,
         instructorId |-> cl[IndexOfKey(cl, k)].instructorId,
         aps |-> cl[IndexOfKey(cl, k)].aps,
         key |-> cl[IndexOfKey(cl, k)].key,
         selected |-> bx[IndexOfKey(cl, k)],
         aps_contrib |-> cl[IndexOfKey(cl, k)].aps * bx[IndexOfKey(cl, k)]]]

\* The per-instructor counts with every session of the instructor counted as
\* attended, selected or not (mutant).
instructor_stats_integer_all(cl, sel) ==
    [iid \in { cl[i].instructorId : i \in 1..Len(cl) } |->
        [name |-> InstructorName(iid),
         total |-> Cardinality({ i \in 1..Len(cl) : cl[i].instructorId = iid }),
         attended |-> Cardinality({ i \in 1..Len(cl) : cl[i].instructorId = iid })]]

\* instructor_stats of the integer result.
instructor_stats_integer(cl, sel) ==
    [iid \in { cl[i].instructorId : i \in 1..Len(cl) } |->
        [name |-> InstructorName(iid),
         total |-> Cardinality({ i \in 1..Len(cl) : cl[i].instructorId = iid }),
         attended |-> Cardinality({ i \in 1..Len(cl) :
                                      /\ cl[i].instructorId = iid
                                      /\ f_key(cl[i]) \in DOMAIN sel
                                      /\ sel[f_key(cl[i])].selected = 1 })]]

\* The result dict, from the selection and the week's totals.
IntegerResultOf(loc, best, sel, total_selected_week, total_value) ==
    [selection |-> sel,
     totalClassesWeek |-> loc.total_classes_per_week,
     totalClassesSemester |-> loc.total_classes_semester,
     requiredClassesWeek |-> loc.required_per_week,
     requiredClassesSemester |-> loc.required_classes_semester,
     selectedWeek |-> total_selected_week,
     selectedSemester |-> total_selected_week * weeks,
     attendancePercentage |->
        IF loc.total_classes_semester > 0
        THEN RoundDiv(total_selected_week * weeks * 10000, loc.total_classes_semester)
        ELSE 0,
     totalValue |-> total_value,
     avgValue |-> IF total_selected_week > 0
                  THEN RoundDiv(total_value, total_selected_week) ELSE 0,
     instructorStats |-> instructor_stats_integer(loc.class_list, sel),
     optimalObj |-> best.obj]

\* The result dict built from the incumbent.
IntegerResult(loc, best) ==
    CHOOSE r \in
        { IntegerResultOf(loc, best, sel,
                          SumOver(DOMAIN sel, [k \in DOMAIN sel |-> sel[k].selected]),
                          SumOver(DOMAIN sel, [k \in DOMAIN sel |-> sel[k].aps_contrib])) :
          sel \in { attendance_selection(loc.class_list, best.x) } } : TRUE

\* optimize_attendance_integer after branch_and_bound() has returned.
ReturnInteger ==
    /\ pc = "bb"
    /\ stack = <<>>
    /\ pc' = "done"
    /\ result' = IF best_solution.x = NoX THEN None ELSE IntegerResult(locals, best_solution)
    /\ UNCHANGED <<inputs, fp, history, mode, locals, stack, best_solution, lpx, lpLog, lpCalls>>

\* ------------------------------------------------------------------ fractional optimizer
\* The fractional target rounded up to a whole number of sessions, as in the
\* integer optimizer (mutant).
required_per_week_simplex_ceil(nn, des) == CeilDiv(nn * d_pct(des), 10000) * Unit

\* required_per_week of optimize_attendance_simplex: n * d_pct, in 1/Unit.
required_per_week_simplex(nn, des) == nn * d_pct(des) * (Unit \div 10000)

\* No instructor-minimum rows in the fractional LP (mutant).
A_ub_empty(cl) == <<>>

\* A_ub: the instructor-minimum rows.
A_ub(cl) == InstructorRows(cl)

\* The local variables of optimize_attendance_simplex before the first solve.
SimplexLocals(tt, cl, des) ==
    IF Len(tt) = 0 THEN [total_classes_per_week |-> 0, n |-> 0]
    ELSE [total_classes_per_week |-> Len(tt),
          required_per_week |-> required_per_week_simplex(Len(tt), des),
          total_classes_semester |-> Len(tt) * weeks,
          required_classes_semester |->
              CeilDiv(required_per_week_simplex(Len(tt), des) * weeks, Unit),
          class_list |-> cl,
          n |-> Len(cl),
          c |-> ObjectiveCoeffs(cl),
          A_eq |-> << [i \in 1..Len(cl) |-> 1] >>,
          b_eq |-> << required_per_week_simplex(Len(tt), des) >>,
          A_ub |-> A_ub(cl),
          b_ub |-> [k \in 1..Len(A_ub(cl)) |-> -2 * Unit],
          bounds |-> [i \in 1..Len(cl) |-> <<0, Unit>>]]

\* The LP of the first solve: with the instructor rows.
FirstProblem(loc) ==
    [c |-> loc.c, A_ub |-> loc.A_ub, b_ub |-> loc.b_ub,
     A_eq |-> loc.A_eq, b_eq |-> loc.b_eq, bounds |-> loc.bounds,
     vals |-> FracVals(loc.required_per_week)]

\* The retry that keeps the instructor rows (mutant).
RetryProblem_keep(loc) == FirstProblem(loc)

\* The LP of the retry: A_ub = None, b_ub = None, the rest as before.
RetryProblem(loc) ==
    [c |-> loc.c, A_ub |-> <<>>, b_ub |-> <<>>,
     A_eq |-> loc.A_eq, b_eq |-> loc.b_eq, bounds |-> loc.bounds,
     vals |-> FracVals(loc.required_per_week)]

\* "if not result.success and A_ub": whether a failed first solve is retried.
RetryTaken(loc) == loc.A_ub # <<>>

\* round(float(val), 3), in thousandths.
Fraction(val) == RoundDiv(val * 1000, Unit)

\* optimize_attendance_simplex up to the first linprog call.
CallSimplex ==
    /\ pc = "call"
    /\ mode \in {"none", "simplex"}
    /\ mode' = "simplex"
    /\ \E loc \in { SimplexLocals(timetable,
                                  BuildClassList(timetable, student_profile, priorities),
                                  desired) } :
        /\ locals' = loc
        /\ IF loc.n = 0
           THEN pc' = "done" /\ result' = None
           ELSE pc' = "solve" /\ result' = result
    /\ timetable' = TimetableAfterBuild(timetable, student_profile, priorities)
    /\ UNCHANGED <<student_profile, priorities, desired, fp, history, stack, best_solution,
                   lpx, lpLog, lpCalls>>

\* The first linprog call and the test of its outcome.
SolveSimplex ==
    /\ pc = "solve"
    /\ lpCalls' = lpCalls + 1
    /\ \E opt \in { linprog(FirstProblem(locals)) } :
        /\ lpLog' = Append(lpLog, [lp |-> FirstProblem(locals), success |-> opt # {}])
        /\ IF opt # {}
           THEN /\ pc' = "build"
                /\ \E x \in opt : lpx' = x
           ELSE /\ lpx' = lpx
                /\ pc' = IF RetryTaken(locals) THEN "retry"
                         ELSE "error"  \* enumerate(result.x) of a failed solve
    /\ UNCHANGED <<inputs, fp, history, mode, locals, stack, best_solution, result>>

\* The retry without the instructor rows.
RetrySimplex ==
    /\ pc = "retry"
    /\ lpCalls' = lpCalls + 1
    /\ \E opt \in { linprog(RetryProblem(locals)) } :
        /\ lpLog' = Append(lpLog, [lp |-> RetryProblem(locals), success |-> opt # {}])
        /\ IF opt # {}
           THEN /\ pc' = "build"
                /\ result' = result
                /\ \E x \in opt : lpx' = x
           ELSE /\ pc' = "done"
                /\ result' = None
                /\ lpx' = lpx
    /\ UNCHANGED <<inputs, fp, history, mode, locals, stack, best_solution>>

\* The sessions whose weighted utility val * aps lies exactly halfway between
\* two thousandths: round(float(val) * aps, 3) then depends on the last bits
\* of the solver's val and may fall on either side.
TieKeys(cl, x) ==
    { f_key(cl[i]) : i \in { j \in 1..Len(cl) : 2 * ((x[j] * cl[j].aps) % Unit) = Unit } }

\* round(float(val) * aps, 3) in thousandths; up: an exact tie rounds up.
aps_weighted(val, aps, up) ==
    IF 2 * ((val * aps) % Unit) = Unit
    THEN (IF up THEN (val * aps) \div Unit + 1 ELSE (val * aps) \div Unit)
    ELSE RoundDiv(val * aps, Unit)

\* attendance_fractions: key -> the session with its fraction; ups: the keys
\* whose tied weighted utility rounds up.
attendance_fractions(cl, x, ups) ==
    [k \in { f_key(cl[i]) : i \in 1..Len(cl) } |->
        [day |-> cl[IndexOfKey(cl, k)].day,
         slotId |-> cl[IndexOfKey(cl, k)].slotId,
         instructorId |-> cl[IndexOfKey(cl, k)].instructorId,
         key |-> cl[IndexOfKey(cl, k)].key,
         fraction |-> Fraction(x[IndexOfKey(cl, k)]),
         aps_weighted |-> aps_weighted(x[IndexOfKey(cl, k)], cl[IndexOfKey(cl, k)].aps,
                                       k \in ups),
         aps |-> cl[IndexOfKey(cl, k)].aps]]

\* instructor_stats of the fractional result ("attended" in thousandths).
instructor_stats_simplex(cl, af) ==
    [iid \in { cl[i].instructorId : i \in 1..Len(cl) } |->
        [name |-> InstructorName(iid),
         total |-> Cardinality({ i \in 1..Len(cl) : cl[i].instructorId = iid }),
         attended |-> SumOver({ i \in 1..Len(cl) :
                                  cl[i].instructorId = iid /\ f_key(cl[i]) \in DOMAIN af },
                              [i \in 1..Len(cl) |-> af[f_key(cl[i])].fraction])]]

\* The result dict, from the fractions and the week's totals.
SimplexResultOf(loc, af, total_fractional_classes, total_value) ==
    [attendance_fractions |-> af,
     totalClassesWeek |-> loc.total_classes_per_week,
     totalClassesSemester |-> loc.total_classes_semester,
     requiredClassesSemester |-> loc.required_classes_semester,
     requiredClassesWeek |-> RoundDiv(loc.required_per_week * 1000, Unit),
     totalSelectedSemester |-> RoundDiv(total_fractional_classes * weeks, 10),
     totalFractionalClassesWeek |-> total_fractional_classes,
     attendancePercentage |->
        IF loc.total_classes_semester > 0
        THEN RoundDiv(total_fractional_classes * weeks * 10, loc.total_classes_semester)
        ELSE 0,
     totalValue |-> total_value,
     avgValue |-> IF total_fractional_classes > 0
                  THEN RoundDiv(total_value * 1000, total_fractional_classes) ELSE 0,
     instructorStats |-> instructor_stats_simplex(loc.class_list, af),
     optimal |-> TRUE]

\* The result dict built from result.x.
SimplexResult(loc, x, ups) ==
    CHOOSE r \in
        { SimplexResultOf(loc, af,
                          SumOver(DOMAIN af, [k \in DOMAIN af |-> af[k].fraction]),
                          SumOver(DOMAIN af, [k \in DOMAIN af |-> af[k].aps_weighted])) :
          af \in { attendance_fractions(loc.class_list, x, ups) } } : TRUE

\* optimize_attendance_simplex from "Build attendance fractions" to the return.
BuildSimplex ==
    /\ pc = "build"
    /\ pc' = "done"
    /\ \E ups \in SUBSET TieKeys(locals.class_list, lpx) :
           result' = SimplexResult(locals, lpx, ups)
    /\ UNCHANGED <<inputs, fp, history, mode, locals, stack, best_solution, lpx, lpLog, lpCalls>>

\* ------------------------------------------------------------------ specification
NoLocals == [none |-> TRUE]

Init ==
    /\ timetable \in Timetables
    /\ student_profile \in ProfileChoices
    /\ priorities \in PriorityChoices
    /\ desired \in TargetChoices
    /\ mode = "none"
    /\ pc = "call"
    /\ locals = NoLocals
    /\ stack = <<>>
    /\ best_solution = [obj |-> NoIncumbentObj, x |-> NoX]
    /\ lpx = <<>>
    /\ lpLog = <<>>
    /\ lpCalls = 0
    /\ result = None
    /\ fp = "down"
    /\ history = <<>>

Next ==
    \/ CallInteger
    \/ BranchAndBound
    \/ ReturnInteger
    \/ CallSimplex
    \/ SolveSimplex
    \/ RetrySimplex
    \/ BuildSimplex

Spec == Init /\ [][Next]_vars

\* ---- the optimizer called again with a higher target ----

\* Largest number of optimizer calls in a row.
MaxRuns == 2

\* _optimize_click after a completed call: the user has raised the target and
\* the application calls its optimizer again with the same timetable, profile
\* and priorities.  The completed call is remembered in history.
OptimizeAgain ==
    /\ pc = "done"
    /\ mode \in {"integer", "simplex"}
    /\ Len(history) + 1 < MaxRuns
    /\ history' = Append(history, [mode |-> mode, desired |-> desired, result |-> result])
    /\ \E t \in { u \in TargetChoices : u > desired } : desired' = t
    /\ pc' = "call"
    /\ locals' = NoLocals
    /\ stack' = <<>>
    /\ best_solution' = [obj |-> NoIncumbentObj, x |-> NoX]
    /\ lpx' = <<>>
    /\ lpLog' = <<>>
    /\ lpCalls' = 0
    /\ result' = None
    /\ UNCHANGED <<timetable, student_profile, priorities, mode, fp>>

RepeatNext == Next \/ OptimizeAgain

RepeatSpec == Init /\ [][RepeatNext]_vars

(***************************************************************************)
(* Two calls of optimize_attendance_integer on the same timetable, profile *)
(* and priorities, their steps interleaved by a scheduler.  The variables  *)
(* hold the frame of the call that is running; history holds the frame of  *)
(* the call that is waiting.                                               *)
(***************************************************************************)

\* The targets of the second call.
OtherTargets == {3300, 7500}

\* The incumbent a resumed call sees if best_solution were one object
\* shared by all calls: the value the other call left in it (mutant).
OwnIncumbent_shared(mine, other) == other

\* best_solution is created by each call and reached only through that
\* call's closure: a resumed call sees the value it last wrote.
OwnIncumbent(mine, other) == mine

\* The frame of the running call: its argument, its position, its locals
\* (class list, constraint lists), its pending recursive calls, its
\* incumbent and its return value.
CallFrame ==
    [desired |-> desired, pc |-> pc, locals |-> locals, stack |-> stack,
     best_solution |-> best_solution, lpCalls |-> lpCalls, result |-> result]

\* The frame of the waiting call.
WaitingFrame == [fld \in DOMAIN history[1] \ {"id"} |-> history[1][fld]]

InterleaveInit ==
    /\ timetable \in Timetables
    /\ student_profile \in ProfileChoices
    /\ priorities \in PriorityChoices
    /\ desired \in TargetChoices
    /\ mode = "integer"
    /\ pc = "call"
    /\ locals = NoLocals
    /\ stack = <<>>
    /\ best_solution = [obj |-> NoIncumbentObj, x |-> NoX]
    /\ lpx = <<>>
    /\ lpLog = <<>>
    /\ lpCalls = 0
    /\ result = None
    /\ fp = "down"
    /\ \E t \in OtherTargets :
          history = << [id |-> 2, desired |-> t, pc |-> "call", locals |-> NoLocals,
                        stack |-> <<>>,
                        best_solution |-> [obj |-> NoIncumbentObj, x |-> NoX],
                        lpCalls |-> 0, result |-> None] >>

\* The scheduler suspends the running call and resumes the waiting one.
Switch ==
    /\ mode = "integer"
    /\ Len(history) = 1
    /\ "id" \in DOMAIN history[1]
    /\ history' = << [id |-> 3 - history[1].id, desired |-> desired, pc |-> pc,
                      locals |-> locals, stack |-> stack,
                      best_solution |-> best_solution,
                      lpCalls |-> lpCalls, result |-> result] >>
    /\ desired' = history[1].desired
    /\ pc' = history[1].pc
    /\ locals' = history[1].locals
    /\ stack' = history[1].stack
    /\ best_solution' = OwnIncumbent(history[1].best_solution, best_solution)
    /\ lpCalls' = history[1].lpCalls
    /\ result' = history[1].result
    /\ UNCHANGED <<timetable, student_profile, priorities, mode, fp, lpx, lpLog>>

InterleaveNext ==
    \/ CallInteger
    \/ BranchAndBound
    \/ ReturnInteger
    \/ Switch

InterleaveSpec == InterleaveInit /\ [][InterleaveNext]_vars

(***************************************************************************)
(* The choice of the branch variable on its own: branch_and_bound's lines  *)
(* 196-198 applied to relaxed solutions with coordinates in quarters, next *)
(* to the optimizer calls of Spec.                                         *)
(***************************************************************************)

\* Coordinates of the relaxed solutions tried: 0, 1/4, 1/2, 3/4, 1 (exact in
\* binary floating point, so |x_i - 0.5| ties are exact ties).
QuarterVals == {0, Unit \div 4, Unit \div 2, (3 * Unit) \div 4, Unit}

BranchInit ==
    /\ timetable = <<>>
    /\ student_profile \in ProfileChoices
    /\ priorities \in PriorityChoices
    /\ desired = 5000
    /\ mode = "branch"
    /\ pc = "call"
    /\ locals = NoLocals
    /\ stack = <<>>
    /\ best_solution = [obj |-> NoIncumbentObj, x |-> NoX]
    /\ lpx \in { x \in [1..MaxN -> QuarterVals] : fractional_indices(x) # {} }
    /\ lpLog = <<>>
    /\ lpCalls = 0
    /\ result = None
    /\ fp = "down"
    /\ history = <<>>

\* frac_scores, the sort and frac_scores[0][0] for the relaxed solution lpx.
ChooseBranch ==
    /\ mode = "branch"
    /\ pc = "call"
    /\ pc' = "done"
    /\ result' = [branch_var |-> branch_var(lpx)]
    /\ UNCHANGED <<inputs, fp, history, mode, locals, stack, best_solution, lpx, lpLog,
                   lpCalls>>

BranchNext == Next \/ ChooseBranch

BranchSpec == (Init \/ BranchInit) /\ [][BranchNext]_vars

\* ---- the weekly count alone, over every timetable size of the grid ----

\* The timetable grid holds one session per day and slot.
MaxSessions == Len(DAYS) * Cardinality(DOMAIN TIME_SLOTS)

\* The count is computed from the number of sessions and the target only.
CeilInit ==
    /\ timetable = <<>>
    /\ student_profile \in ProfileChoices
    /\ priorities = [i \in {} |-> "Medium"]
    /\ desired \in { 100 * q : q \in 0..100 }
    /\ mode = "count"
    /\ pc = "call"
    /\ locals \in { [n |-> nn] : nn \in 1..MaxSessions }
    /\ stack = <<>>
    /\ best_solution = [obj |-> NoIncumbentObj, x |-> NoX]
    /\ lpx = <<>>
    /\ lpLog = <<>>
    /\ lpCalls = 0
    /\ result = None
    /\ fp = "down"
    /\ history = <<>>

\* d_pct and required_per_week of optimize_attendance_integer.
RequiredPerWeek ==
    /\ mode = "count"
    /\ pc = "call"
    /\ result' = [requiredClassesWeek |->
                      required_per_week_double(locals.n, d_pct(desired) \div 100)]
    /\ pc' = "done"
    /\ UNCHANGED <<timetable, student_profile, priorities, desired, mode, locals,
                   stack, best_solution, lpx, lpLog, lpCalls, fp, history>>

CeilNext == RequiredPerWeek

CeilSpec == CeilInit /\ [][CeilNext]_vars

\* ---- the scorer alone, over the whole catalog and the profile menus ----

\* Largest number of calculate_aps calls in a row.
MaxScoreCalls == 3

\* The travel-time and time-commitment menus of the profile form (tenths).
ProfileMenu ==
    { [travelTime |-> t, timeCommitment |-> c] : t \in {10, 15, 20, 25, 30}, c \in {0, 5, 10} }

\* The priority maps that matter to the score of instructor iid: no entry, or
\* one of the five levels.
PriorityMaps(iid) ==
    { [i \in {} |-> "Medium"] }
        \cup { [i \in {iid} |-> PRIORITY_LEVELS[l]] : l \in 1..Len(PRIORITY_LEVELS) }

\* The arguments of a calculate_aps call.
ScoreArgs == <<locals.instructor_id, locals.time_block, student_profile, priorities>>

ScorerInit ==
    /\ timetable = <<>>
    /\ student_profile \in ProfileMenu
    /\ \E iid \in (DOMAIN PROFESSORS) \cup {99} :
          /\ locals \in { [instructor_id |-> iid, time_block |-> b] :
                            b \in {"morning", "midday", "afternoon", "evening"} }
          /\ priorities \in PriorityMaps(iid)
    /\ desired = 0
    /\ mode = "score"
    /\ pc = "call"
    /\ stack = <<>>
    /\ best_solution = [obj |-> NoIncumbentObj, x |-> NoX]
    /\ lpx = <<>>
    /\ lpLog = <<>>
    /\ lpCalls = 0
    /\ result = None
    /\ fp \in {"down", "up"}
    /\ history = <<>>

\* One call of calculate_aps.
Score ==
    /\ mode = "score"
    /\ pc = "call"
    /\ \E v \in { calculate_aps(locals.instructor_id, locals.time_block,
                                 student_profile, priorities) } :
          /\ result' = v
          /\ history' = Append(history, [args |-> ScoreArgs, value |-> v])
    /\ pc' = "done"
    /\ UNCHANGED <<timetable, student_profile, priorities, desired, mode, locals,
                   stack, best_solution, lpx, lpLog, lpCalls, fp>>

\* The caller prepares the next call: the arguments of the first call again,
\* or the current ones with the instructor's priority set to "Avoid".
ScoreAgain ==
    /\ mode = "score"
    /\ pc = "done"
    /\ Len(history) < MaxScoreCalls
    /\ pc' = "call"
    /\ \/ /\ locals' = [instructor_id |-> history[1].args[1],
                         time_block |-> history[1].args[2]]
          /\ student_profile' = history[1].args[3]
          /\ priorities' = history[1].args[4]
       \/ /\ priorities' = [i \in {locals.instructor_id} |-> "Avoid"]
          /\ UNCHANGED <<locals, student_profile>>
    /\ UNCHANGED <<timetable, desired, mode, stack, best_solution, lpx, lpLog, lpCalls,
                   result, fp, history>>

ScorerNext == Score \/ ScoreAgain

ScorerSpec == ScorerInit /\ [][ScorerNext]_vars

\* ------------------------------------------------------------------ properties
\* Number of sessions of the timetable.
N == Len(timetable)

\* The target clamped to [0, 100], in hundredths of a percent.
ClampedTarget == IF desired < 0 THEN 0 ELSE IF desired > 10000 THEN 10000 ELSE desired

\* The sessions of instructor iid.
SessionsOf(iid) == { i \in 1..N : timetable[i].cls.instructorId = iid }

\* The instructors that teach at least two sessions.
MultiInstructors ==
    { iid \in { timetable[i].cls.instructorId : i \in 1..N } : Cardinality(SessionsOf(iid)) >= 2 }

IntegerDone == pc = "done" /\ mode = "integer" /\ result # None
SimplexDone == pc = "done" /\ mode = "simplex" /\ result # None

\* The key under which session i is reported.
KeyOf(i) == timetable[i].cls.day \o "-" \o ToString(timetable[i].cls.slotId)

\* The 0/1 decision reported for session i by the integer optimizer.
Selected(i) == result.selection[KeyOf(i)].selected

\* The binary assignments with exactly kk sessions that give every instructor
\* with >= 2 sessions at least 2 of them.
FeasibleSelections(kk) ==
    { y \in [1..N -> {0, 1}] :
        /\ SumTo(y, N) = kk
        /\ \A iid \in MultiInstructors : SumOver(SessionsOf(iid), y) >= 2 }

\* Sum of the APS of the sessions y selects (thousandths).
Utility(y) == SumTo([i \in 1..N |-> locals.class_list[i].aps * y[i]], N)

\* C1: a non-null result of optimize_attendance_integer has selected in {0, 1}
\* for every session, and the number of sessions with selected = 1
\* (selectedWeek) equals requiredClassesWeek, which is ceil(N * p / 100) for
\* the clamped target p.
C1_BinaryExactCount ==
    IntegerDone =>
        /\ \A k \in DOMAIN result.selection : result.selection[k].selected \in {0, 1}
        /\ Cardinality({ k \in DOMAIN result.selection : result.selection[k].selected = 1 })
              = result.selectedWeek
        /\ result.selectedWeek = result.requiredClassesWeek
        /\ result.requiredClassesWeek * 10000 >= N * ClampedTarget
        /\ (result.requiredClassesWeek - 1) * 10000 < N * ClampedTarget

\* A 3-session timetable at 50%: 1.5 is rounded up to 2 selected sessions.
C1_Witness ==
    /\ IntegerDone
    /\ N = 3
    /\ desired = 5000
    /\ result.selectedWeek = 2
    /\ \E i \in 1..N : Selected(i) = 0

\* C1 (the count): the required weekly count the integer optimizer computes
\* equals ceil(N * p / 100) for every timetable size and whole percentage.
C1_CountIsCeiling ==
    (mode = "count" /\ pc = "done") =>
        result.requiredClassesWeek = CeilDiv(locals.n * d_pct(desired), 10000)

C3_FractionsSumExactly ==
    SimplexDone =>
        /\ \A k \in DOMAIN result.attendance_fractions :
               /\ result.attendance_fractions[k].fraction >= 0
               /\ result.attendance_fractions[k].fraction <= 1000
        /\ result.totalFractionalClassesWeek * 10 = N * ClampedTarget

\* C3 (amended): every reported fraction is in [0, 1] and is the LP value
\* rounded to 3 decimals; the LP values sum to N * p / 100 exactly, and the
\* sum of the reported fractions differs from N * p / 100 by at most 0.0005
\* per session.
C3_FractionsSumWithinRounding ==
    SimplexDone =>
        /\ \A i \in 1..N :
               /\ result.attendance_fractions[KeyOf(i)].fraction >= 0
               /\ result.attendance_fractions[KeyOf(i)].fraction <= 1000
               /\ 2 * Abs(result.attendance_fractions[KeyOf(i)].fraction * Unit - lpx[i] * 1000)
                      <= Unit
        /\ SumTo(lpx, N) * 10000 = N * ClampedTarget * Unit
        /\ result.totalFractionalClassesWeek
              = SumTo([i \in 1..N |-> result.attendance_fractions[KeyOf(i)].fraction], N)
        /\ Abs(result.totalFractionalClassesWeek * 10 - N * ClampedTarget) <= 5 * N

\* A target of 33.34% over 3 sessions: the LP total 1.0002 is reported as 1.000.
C3_Witness ==
    /\ SimplexDone
    /\ N = 3
    /\ desired = 3334
    /\ result.totalFractionalClassesWeek * 10 # N * ClampedTarget

\* C4: in every non-null integer result every instructor with >= 2 sessions
\* has instructorStats.attended >= 2.
C4_IntegerInstructorMinimum ==
    IntegerDone =>
        \A iid \in MultiInstructors :
            /\ iid \in DOMAIN result.instructorStats
            /\ result.instructorStats[iid].total = Cardinality(SessionsOf(iid))
            /\ result.instructorStats[iid].attended >= 2

\* The minimum binds: both sessions of an instructor are selected although a
\* session with a strictly higher APS is left out.
C4_Witness ==
    /\ IntegerDone
    /\ MultiInstructors # {}
    /\ \E i \in 1..N, j \in 1..N :
           /\ Selected(i) = 1
           /\ timetable[i].cls.instructorId \in MultiInstructors
           /\ Selected(j) = 0
           /\ locals.class_list[j].aps > locals.class_list[i].aps

\* C5: in every fractional result whose first solve succeeded, the reported
\* fractions of every instructor with >= 2 sessions sum to at least 2.
C5_SimplexInstructorMinimum ==
    (SimplexDone /\ lpLog[1].success) =>
        \A iid \in MultiInstructors :
            /\ iid \in DOMAIN result.instructorStats
            /\ result.instructorStats[iid].attended
                  = SumOver(SessionsOf(iid),
                            [i \in 1..N |-> result.attendance_fractions[KeyOf(i)].fraction])
            /\ result.instructorStats[iid].attended >= 2000

\* The minimum binds in a first solve that succeeded: an instructor's session
\* is fully attended although a session with a higher APS is not.
C5_Witness ==
    /\ SimplexDone
    /\ lpLog[1].success
    /\ \E i \in 1..N, j \in 1..N :
           /\ timetable[i].cls.instructorId \in MultiInstructors
           /\ result.attendance_fractions[KeyOf(i)].fraction = 1000
           /\ result.attendance_fractions[KeyOf(j)].fraction < 1000
           /\ locals.class_list[j].aps > locals.class_list[i].aps

\* C6: called with a timetable of zero sessions, both optimizers return None
\* and make no LP solve.
C6_EmptyTimetableNull ==
    (N = 0 /\ pc # "call") =>
        /\ pc = "done"
        /\ result = None
        /\ lpCalls = 0
        /\ lpLog = <<>>
        /\ stack = <<>>

\* The integer optimizer has returned for an empty timetable.
C6_Witness == N = 0 /\ pc = "done" /\ mode = "integer" /\ desired = 5000

\* C7: when the first solve of the fractional optimizer, with instructor rows,
\* fails, linprog is called exactly once more, without instructor rows and
\* with the same objective, equality and bounds; the result is built from the
\* retry's solution, and None is returned only if the retry fails too.
C7_RetryOnceWithoutInstructorRows ==
    (pc = "done" /\ mode = "simplex" /\ N > 0) =>
        /\ Len(lpLog) >= 1
        /\ lpLog[1].success => Len(lpLog) = 1 /\ result # None
        /\ (lpLog[1].lp.A_ub # <<>> /\ ~lpLog[1].success) =>
              /\ Len(lpLog) = 2
              /\ lpCalls = 2
              /\ lpLog[2].lp.A_ub = <<>> /\ lpLog[2].lp.b_ub = <<>>
              /\ lpLog[2].lp.c = lpLog[1].lp.c
              /\ lpLog[2].lp.A_eq = lpLog[1].lp.A_eq
              /\ lpLog[2].lp.b_eq = lpLog[1].lp.b_eq
              /\ lpLog[2].lp.bounds = lpLog[1].lp.bounds
              /\ (result = None) <=> ~lpLog[2].success
              /\ lpLog[2].success =>
                    /\ Satisfies(lpLog[2].lp, lpx)
                    /\ \A y \in Feasible(lpLog[2].lp) :
                           Dot(lpLog[2].lp.c, lpx) <= Dot(lpLog[2].lp.c, y)
                    /\ \A i \in 1..N :
                           2 * Abs(result.attendance_fractions[KeyOf(i)].fraction * Unit
                                   - lpx[i] * 1000) <= Unit

\* The retry produced the result: its solution breaks an instructor minimum.
C7_Witness ==
    /\ SimplexDone
    /\ Len(lpLog) = 2
    /\ \E iid \in MultiInstructors : SumOver(SessionsOf(iid), lpx) < 2 * Unit
    /\ \E i \in 1..N : lpx[i] > 0

\* C8 (as claimed): when the instructor minimums conflict with the equality
\* target, the integer optimizer solves the problem without the instructor
\* minimums and returns None only if that relaxed problem is infeasible too.
C8_IntegerRelaxesBeforeNull ==
    (/\ pc = "done" /\ mode = "integer" /\ N > 0
     /\ FeasibleSelections(CeilDiv(N * ClampedTarget, 10000)) = {}
     /\ result = None) =>
        ~ \E y \in [1..N -> {0, 1}] : SumTo(y, N) = CeilDiv(N * ClampedTarget, 10000)

\* The class list the call builds from its inputs.
InputClassList == BuildClassList(timetable, student_profile, priorities)

\* The result of the integer optimizer when the only feasible assignment is
\* the constant vector v (v = 1 at a target of 100, v = 0 at a target of 0),
\* computed for the target tgt.
IntegerResultAt(tgt, v) ==
    IntegerResult(IntegerLocals(InputClassList, tgt),
                  [obj |-> -Dot(ObjectiveCoeffs(InputClassList), [i \in 1..N |-> v * Unit]),
                   x |-> [i \in 1..N |-> v]])

\* The result of the fractional optimizer when the only feasible point is the
\* constant vector v, computed for the target tgt.
SimplexResultAt(tgt, v) ==
    SimplexResult(SimplexLocals(timetable, InputClassList, tgt), [i \in 1..N |-> v * Unit],
                  {})

\* C9: a target outside [0, 100] is clamped: a target above 100 yields exactly
\* the result of a target of 100 (every session attended), a target below 0
\* exactly the result of a target of 0, and the required weekly count of a
\* result lies in [0, N].
C9_TargetClamped ==
    (pc = "done" /\ N > 0) =>
        /\ (desired >= 10000 /\ mode = "integer") => result = IntegerResultAt(10000, 1)
        /\ (desired >= 10000 /\ mode = "simplex") => result = SimplexResultAt(10000, 1)
        /\ (desired <= 0 /\ mode = "integer") =>
              result = IF MultiInstructors # {} THEN None ELSE IntegerResultAt(0, 0)
        /\ (desired <= 0 /\ mode = "simplex") => result = SimplexResultAt(0, 0)
        /\ IntegerDone =>
              result.requiredClassesWeek >= 0 /\ result.requiredClassesWeek <= N
        /\ SimplexDone =>
              result.requiredClassesWeek >= 0 /\ result.requiredClassesWeek <= 1000 * N

\* A target of 120% has produced a result for a timetable of several sessions.
C9_Witness ==
    /\ pc = "done"
    /\ desired > 10000
    /\ N >= 2
    /\ result # None
    /\ mode = "integer"

\* The sessions whose instructor id is absent from PROFESSORS.
UnknownSessions == { i \in 1..N : timetable[i].cls.instructorId \notin 1..16 }

\* The per-session part of a result.
Decisions == IF mode = "integer" THEN result.selection ELSE result.attendance_fractions

\* C10: for an instructor id absent from PROFESSORS calculate_aps returns 0
\* for every time block, profile and priority map; a timetable with such a
\* session is still optimized: the session enters the solve with APS 0 and is
\* part of the result, and instructorStats names its instructor "#<id>".
C10_UnknownInstructorScoresZero ==
    /\ \A b \in {"morning", "midday", "afternoon", "evening"} :
       \A sp \in ProfileChoices \cup {[travelTime |-> 30, timeCommitment |-> 10]} :
       \A pr \in PriorityChoices \cup {[i \in {99} |-> "Very High"], [i \in {99} |-> "Avoid"]} :
           calculate_aps(99, b, sp, pr) = 0
    /\ (pc \notin {"call", "error"} /\ N > 0) =>
           \A i \in UnknownSessions :
               /\ locals.class_list[i].aps = 0
               /\ locals.c[i] = 0
    /\ (pc = "done" /\ result # None) =>
           \A i \in UnknownSessions :
               /\ KeyOf(i) \in DOMAIN Decisions
               /\ Decisions[KeyOf(i)].instructorId = timetable[i].cls.instructorId
               /\ Decisions[KeyOf(i)].aps = 0
               /\ timetable[i].cls.instructorId \in DOMAIN result.instructorStats
               /\ timetable[i].cls.instructorId = 99 =>
                      result.instructorStats[99].name = "#99"

\* An integer result for a timetable that holds a session of the unknown
\* instructor 99 and a session of a catalog instructor, in which the session
\* of instructor 99 is selected and some session is skipped.
C10_Witness ==
    /\ IntegerDone
    /\ \E i \in UnknownSessions : Selected(i) = 1
    /\ \E j \in 1..N : j \notin UnknownSessions
    /\ result.selectedWeek < N

\* The value the formula of the scorer takes, in 1e-7, for the ratings of
\* professor iid, time-block rating tb, the profile (tt, tc) and multiplier m.
ApsFormula(iid, tb, tt, tc, m) ==
    m * (1476 * PROFESSORS[iid].pv + 1456 * PROFESSORS[iid].le
         + 1370 * PROFESSORS[iid].se + 1356 * PROFESSORS[iid].ar
         + 1203 * tb + 1225 * 50 - 935 * tt - 979 * tc)

\* The multiplier of a priority map for instructor iid, in hundredths.
MultOf(pr, iid) ==
    IF iid \notin DOMAIN pr THEN 110
    ELSE CASE pr[iid] = "Very High" -> 140
           [] pr[iid] = "High"      -> 125
           [] pr[iid] = "Medium"    -> 110
           [] pr[iid] = "Low"       -> 100
           [] pr[iid] = "Avoid"     -> 80

\* The rating of a named time block, in tenths.
BlockRating(b) ==
    CASE b = "morning" -> 75 [] b = "midday" -> 70 [] b = "afternoon" -> 65

\* C11: for a known instructor and a named time block calculate_aps returns
\* mult * (0.1476 pv + 0.1456 le + 0.1370 se + 0.1356 ar + 0.1203 TB
\* + 0.1225 * 5.0 - 0.0935 travelTime - 0.0979 timeCommitment) rounded to the
\* nearest thousandth, with mult 1.10 when the priority map has no entry for
\* the instructor; instructor 2 in the morning with travelTime 2.0,
\* timeCommitment 0.5 and priority Medium scores 6.614.
C11_ScoreFormula ==
    \A k \in 1..Len(history) :
        (/\ history[k].args[1] \in DOMAIN PROFESSORS
         /\ history[k].args[2] \in {"morning", "midday", "afternoon"}) =>
            /\ 2 * Abs(10000 * history[k].value
                       - ApsFormula(history[k].args[1], BlockRating(history[k].args[2]),
                                    history[k].args[3].travelTime,
                                    history[k].args[3].timeCommitment,
                                    MultOf(history[k].args[4], history[k].args[1])))
                   <= 10000
            /\ (/\ history[k].args[1] = 2
                /\ history[k].args[2] = "morning"
                /\ history[k].args[3] = [travelTime |-> 20, timeCommitment |-> 5]
                /\ MultOf(history[k].args[4], 2) = 110) => history[k].value = 6614

\* The scenario of the specification has been scored, with no priority entry
\* for the instructor, and a call with priority "Avoid" has been made as well.
C11_Witness ==
    /\ mode = "score"
    /\ Len(history) >= 2
    /\ history[1].args = <<2, "morning", [travelTime |-> 20, timeCommitment |-> 5],
                           [i \in {} |-> "Medium"]>>
    /\ history[1].value = 6614
    /\ history[2].args[4] = [i \in {2} |-> "Avoid"]
    /\ history[2].value < 6614

EachInstructorOnce ==
    \A i, j \in 1..N : timetable[i].cls.instructorId = timetable[j].cls.instructorId => i = j

C14_IntegerMonotone ==
    (/\ pc = "done" /\ mode = "integer" /\ Len(history) >= 1
     /\ result # None /\ history[1].result # None) =>
        result.totalValue >= history[1].result.totalValue

\* Two non-null integer results, the second for a higher target, selecting
\* more sessions and reaching a strictly larger totalValue.
C14_Witness ==
    /\ pc = "done" /\ mode = "integer" /\ Len(history) >= 1
    /\ result # None /\ history[1].result # None
    /\ desired > history[1].desired
    /\ result.selectedWeek > history[1].result.selectedWeek
    /\ history[1].result.selectedWeek >= 1
    /\ result.totalValue > history[1].result.totalValue

\* C15 (as claimed): with the timetable, profile and priorities fixed, the
\* totalValue of the fractional optimizer for a higher target is not below
\* that for a lower target.
C15_SimplexMonotone ==
    (/\ pc = "done" /\ mode = "simplex" /\ Len(history) >= 1
     /\ result # None /\ history[1].result # None) =>
        result.totalValue >= history[1].result.totalValue

\* The APS of session i, computed from the inputs of the call.
ApsOf(i) ==
    calculate_aps(timetable[i].cls.instructorId, slot_block(timetable[i].cls.slotId),
                  student_profile, priorities)

\* C16: for every non-null integer result, the sum of the APS of the sessions
\* with selected = 1 is the reported totalValue, and each session's
\* aps_contrib is its APS when selected and 0 when not.
C16_TotalValueRoundTrip ==
    IntegerDone =>
        /\ result.totalValue = SumOver({ i \in 1..N : Selected(i) = 1 }, [i \in 1..N |-> ApsOf(i)])
        /\ \A i \in 1..N :
               result.selection[KeyOf(i)].aps_contrib
                   = IF Selected(i) = 1 THEN ApsOf(i) ELSE 0

\* Two selected sessions and a skipped session, all with a positive APS.
C16_Witness ==
    /\ IntegerDone
    /\ Cardinality({ i \in 1..N : Selected(i) = 1 /\ ApsOf(i) > 0 }) >= 2
    /\ \E j \in 1..N : Selected(j) = 0 /\ ApsOf(j) > 0

\* C17 (as claimed): every recursive call of branch_and_bound makes progress:
\* no pending call carries the same inequality row twice (a call entered with
\* a row its caller already had searches exactly its caller's region again),
\* and the recursion never reaches the interpreter's recursion limit.
C17_EachCallMakesProgress ==
    mode = "integer" =>
        /\ pc # "error"
        /\ \A k \in 1..Len(stack) :
           \A a, b \in 1..Len(stack[k].add_A_ub) :
               (/\ stack[k].add_A_ub[a] = stack[k].add_A_ub[b]
                /\ stack[k].add_b_ub[a] = stack[k].add_b_ub[b]) => a = b

\* The per-session records of a non-null result.
ResultSessions == IF mode = "integer" THEN result.selection ELSE result.attendance_fractions

\* C18: a call of either optimizer leaves the timetable and each of its
\* session records, the student profile, the priority map and the target as
\* they were, at every step; the session records of the result are new
\* records that carry the session's fields and the result's own keys, which
\* the timetable's records do not get.  (PROFESSORS and TIME_SLOTS are
\* module-level tables no statement assigns to: they are constants here.)
C18_InputsUnchanged ==
    /\ [][inputs' = inputs]_vars
    /\ []((pc = "done" /\ result # None) =>
            \A i \in 1..N :
                /\ DOMAIN timetable[i].cls = {"day", "slotId", "instructorId"}
                /\ "aps" \in DOMAIN ResultSessions[KeyOf(i)]
                /\ \A fld \in DOMAIN timetable[i].cls :
                       ResultSessions[KeyOf(i)][fld] = timetable[i].cls[fld])

\* A call on three sessions has returned a result in which a session with a
\* positive APS is attended.
C18_Witness ==
    /\ pc = "done"
    /\ result # None
    /\ N = 3
    /\ \E i \in 1..N :
           /\ ResultSessions[KeyOf(i)].aps > 0
           /\ (IF mode = "integer" THEN ResultSessions[KeyOf(i)].selected = 1
               ELSE ResultSessions[KeyOf(i)].fraction > 0)

\* The call that is running has returned what it returns when run alone:
\* None exactly when there is nothing to optimize or no binary assignment
\* meets its own target and the instructor minimums, and otherwise a feasible
\* selection for its own target whose totalValue is the maximum.
ReturnsAsAlone ==
    /\ (result = None) <=>
          (N = 0 \/ FeasibleSelections(CeilDiv(N * ClampedTarget, 10000)) = {})
    /\ result # None =>
          /\ result.requiredClassesWeek = required_per_week(N, desired)
          /\ [i \in 1..N |-> Selected(i)]
                \in FeasibleSelections(CeilDiv(N * ClampedTarget, 10000))
          /\ result.totalValue = Utility([i \in 1..N |-> Selected(i)])
          /\ \A y \in FeasibleSelections(CeilDiv(N * ClampedTarget, 10000)) :
                 Utility(y) <= result.totalValue
          /\ result = IntegerResult(IntegerLocals(InputClassList, desired), best_solution)

\* A step of the scheduler: the call that was waiting is now running.
IsSwitch == history'[1].id # history[1].id

\* C19: when the steps of two integer calls are interleaved arbitrarily, a
\* step of one call leaves the other call's frame (locals, constraint lists,
\* incumbent, return value) as it was, a resumed call finds its frame as it
\* left it, and a call that has returned has returned what it returns when
\* run alone for its own target, however far the other call has got.
C19_CallsIndependent ==
    /\ [][IF IsSwitch
          THEN CallFrame' = WaitingFrame /\ WaitingFrame' = CallFrame
          ELSE WaitingFrame' = WaitingFrame]_vars
    /\ [](pc = "done" => ReturnsAsAlone)

\* Both calls have returned a result, the running one after branching below
\* a fractional root; their targets differ and so do the numbers of sessions
\* they select.
C19_Witness ==
    /\ pc = "done" /\ result # None
    /\ Len(history) = 1
    /\ "id" \in DOMAIN history[1]
    /\ history[1].pc = "done" /\ history[1].result # None
    /\ history[1].desired # desired
    /\ history[1].result.selectedWeek # result.selectedWeek
    /\ lpCalls >= 2 /\ history[1].lpCalls >= 1

\* C20: every non-null result of optimize_attendance_integer is internally
\* consistent: the three semester counts are 20 times the weekly counts, the
\* instructors' total counts sum to N, their attended counts sum to
\* selectedWeek, and no instructor has attended more sessions than they teach.
C20_ResultConsistent ==
    IntegerDone =>
        /\ result.totalClassesWeek = N
        /\ result.totalClassesSemester = 20 * result.totalClassesWeek
        /\ result.requiredClassesSemester = 20 * result.requiredClassesWeek
        /\ result.selectedSemester = 20 * result.selectedWeek
        /\ SumOver(DOMAIN result.instructorStats,
                   [iid \in DOMAIN result.instructorStats |->
                       result.instructorStats[iid].total]) = N
        /\ SumOver(DOMAIN result.instructorStats,
                   [iid \in DOMAIN result.instructorStats |->
                       result.instructorStats[iid].attended]) = result.selectedWeek
        /\ \A iid \in DOMAIN result.instructorStats :
               /\ result.instructorStats[iid].attended >= 0
               /\ result.instructorStats[iid].attended <= result.instructorStats[iid].total

\* A result for three sessions of several instructors, two sessions attended:
\* one instructor has an attended session and another has a skipped one.
C20_Witness ==
    /\ IntegerDone
    /\ N = 3
    /\ Cardinality(DOMAIN result.instructorStats) >= 2
    /\ result.selectedWeek = 2
    /\ \E iid, jid \in DOMAIN result.instructorStats :
           /\ result.instructorStats[iid].attended >= 1
           /\ result.instructorStats[jid].attended < result.instructorStats[jid].total

\* The relaxed solutions solve_lp may return for the node branch_and_bound is
\* about to process (the head of the pending calls).
NodeLP ==
    solve_lp(Head(stack).add_A_ub, Head(stack).add_b_ub,
             Head(stack).add_A_eq, Head(stack).add_b_eq)

\* obj_val of that node: -result.fun, the same for every optimal point.
NodeObj == CHOOSE o \in { -Dot(locals.c, x) : x \in NodeLP } : TRUE

\* branch_and_bound is about to process a node.
AtNode == pc = "bb" /\ stack # <<>>

\* C21: during the search the incumbent only improves.  best_solution is
\* replaced only at a node whose relaxed solution is integral and whose
\* objective exceeds the current best by more than 1e-6 (so the recorded
\* objectives increase strictly); a node whose relaxed objective is at most
\* best + 1e-6 returns without recording and without calling itself; and
\* best_solution["x"] is always None or a 0/1 vector that meets the equality
\* and every instructor minimum.
C21_IncumbentOnlyImproves ==
    /\ [][(mode = "integer" /\ best_solution' # best_solution) =>
             /\ AtNode
             /\ NodeLP # {}
             /\ NodeObj > best_solution.obj + Tol6
             /\ best_solution'.obj = NodeObj
             /\ best_solution'.obj > best_solution.obj
             /\ \E x \in NodeLP :
                    /\ fractional_indices(x) = {}
                    /\ best_solution'.x = [i \in 1..Len(x) |-> RoundDiv(x[i], Unit)]]_vars
    /\ [][(mode = "integer" /\ AtNode /\ NodeLP # {}
           /\ NodeObj <= best_solution.obj + Tol6) =>
             /\ best_solution' = best_solution
             /\ stack' = Tail(stack)
             /\ pc' = pc]_vars
    /\ [](mode = "integer" =>
             \/ best_solution.x = NoX /\ best_solution.obj = NoIncumbentObj
             \/ /\ best_solution.x \in FeasibleSelections(CeilDiv(N * ClampedTarget, 10000))
                /\ best_solution.obj = Unit * Utility(best_solution.x))

\* An incumbent is in place and the node about to be processed has a relaxed
\* objective that does not exceed it by more than 1e-6: it is pruned by bound.
C21_Witness ==
    /\ mode = "integer"
    /\ AtNode
    /\ best_solution.x # NoX
    /\ NodeLP # {}
    /\ NodeObj <= best_solution.obj + Tol6
    /\ \E x \in NodeLP : fractional_indices(x) # {}

\* The frame is the x_b <= 0 child of the node that received frame f.
IsBranch0Of(g, f, b) ==
    /\ g.add_A_ub = f.add_A_ub \o << UnitRow(b, N) >>
    /\ g.add_b_ub = f.add_b_ub \o << 0 >>
    /\ g.add_A_eq = f.add_A_eq /\ g.add_b_eq = f.add_b_eq
    /\ g.depth = f.depth + 1

\* The frame is the x_b = 1 child of the node that received frame f.
IsBranch1Of(g, f, b) ==
    /\ g.add_A_eq = f.add_A_eq \o << UnitRow(b, N) >>
    /\ g.add_b_eq = f.add_b_eq \o << Unit >>
    /\ g.add_A_ub = f.add_A_ub /\ g.add_b_ub = f.add_b_ub
    /\ g.depth = f.depth + 1

\* The frame is a cover-cut child of the node that received frame f: one more
\* inequality row, and the LP with it is feasible.
IsCutChildOf(g, f) ==
    /\ Len(g.add_A_ub) = Len(f.add_A_ub) + 1
    /\ SubSeq(g.add_A_ub, 1, Len(f.add_A_ub)) = f.add_A_ub
    /\ SubSeq(g.add_b_ub, 1, Len(f.add_b_ub)) = f.add_b_ub
    /\ g.add_A_eq = f.add_A_eq /\ g.add_b_eq = f.add_b_eq
    /\ g.depth = f.depth + 1
    /\ solve_lp(g.add_A_ub, g.add_b_ub, g.add_A_eq, g.add_b_eq) # {}

ClosestToHalf(x, b) ==
    /\ b \in 1..Len(x)
    /\ Abs(x[b] - RoundX(x[b])) > Eps6
    /\ \A j \in 1..Len(x) :
          Abs(x[j] - RoundX(x[j])) > Eps6 =>
              /\ Abs(2 * x[b] - Unit) <= Abs(2 * x[j] - Unit)
              /\ j < b => Abs(2 * x[b] - Unit) < Abs(2 * x[j] - Unit)

\* C23: at a fractional node the branch variable is the non-integral variable
\* closest to 0.5, lowest index on ties; the x_b <= 0 child receives the
\* node's own constraints plus that one inequality and the x_b = 1 child the
\* node's own constraints plus that one equality (so neither the cover cut
\* nor x_b <= 0 reaches the x_b = 1 subtree), the constraints of pending
\* calls are never altered, and the base constraint lists stay as built.
C23_BranchingIsPathLocal ==
    /\ []((mode = "branch" /\ pc = "done") => ClosestToHalf(lpx, result.branch_var))
    /\ [][(mode = "integer" /\ AtNode /\ Len(stack') > Len(stack)) =>
            \E x \in NodeLP :
            \E b \in 1..N :
                /\ ClosestToHalf(x, b)
                /\ IsBranch0Of(stack'[Len(stack') - Len(stack)], Head(stack), b)
                /\ IsBranch1Of(stack'[Len(stack') - Len(stack) + 1], Head(stack), b)
                /\ SubSeq(stack', Len(stack') - Len(stack) + 2, Len(stack')) = Tail(stack)]_vars
    /\ [][(mode = "integer" /\ pc = "bb") => locals' = locals]_vars
    /\ [](mode = "integer" =>
            \A k \in 1..Len(stack) :
                /\ Len(stack[k].add_A_ub) = Len(stack[k].add_b_ub)
                /\ Len(stack[k].add_A_eq) = Len(stack[k].add_b_eq)
                /\ Len(stack[k].add_A_ub) + Len(stack[k].add_A_eq) = stack[k].depth)

\* The choice was made for a relaxed solution whose first non-integral
\* variable is not the one closest to 0.5.
C23_Witness ==
    /\ mode = "branch"
    /\ pc = "done"
    /\ \E i \in 1..Len(lpx) :
          /\ Abs(lpx[i] - RoundX(lpx[i])) > Eps6
          /\ i < result.branch_var
          /\ Abs(2 * lpx[i] - Unit) > Abs(2 * lpx[result.branch_var] - Unit)

\* The variables of x strictly between 0 and 1.
StrictlyBetween(x) == { i \in 1..Len(x) : 0 < x[i] /\ x[i] < Unit }

\* floor of the sum of those variables.
FloorOfSum(x) == SumOver(StrictlyBetween(x), x) \div Unit

\* C24: at a fractional node a cover cut is tried (one more LP is solved)
\* exactly when at least 2 variables are strictly between 0 and 1 and the
\* floor of their sum is below their count; the cut row has coefficient 1 on
\* exactly those variables and the floor as right-hand side; the search
\* recurses with the cut added to the node's inequalities, once, exactly when
\* the LP with the cut is feasible, and before the two branches.
C24_CoverCut ==
    [][(mode = "integer" /\ AtNode /\ Len(stack') > Len(stack)) =>
        \E x \in NodeLP :
            LET f == Head(stack)
                tried == /\ Cardinality(StrictlyBetween(x)) >= 2
                         /\ FloorOfSum(x) < Cardinality(StrictlyBetween(x))
                row == [i \in 1..N |-> IF i \in StrictlyBetween(x) THEN 1 ELSE 0]
                cutA == f.add_A_ub \o << row >>
                cutb == f.add_b_ub \o << FloorOfSum(x) * Unit >>
                recursed == tried /\ solve_lp(cutA, cutb, f.add_A_eq, f.add_b_eq) # {}
            IN  /\ fractional_indices(x) # {}
                /\ lpCalls' = lpCalls + 1 + (IF tried THEN 1 ELSE 0)
                /\ Len(stack') = Len(stack) + (IF recursed THEN 2 ELSE 1)
                /\ recursed =>
                      /\ stack'[1] = Frame(cutA, cutb, f.add_A_eq, f.add_b_eq, f.depth + 1)
                      /\ \E b \in 1..N : /\ IsBranch0Of(stack'[2], f, b)
                                         /\ IsBranch1Of(stack'[3], f, b)]_vars

\* The root was fractional in two of three variables: the cut over exactly
\* those two was solved and its child is about to run before the two branches.
C24_Witness ==
    /\ mode = "integer"
    /\ AtNode
    /\ N = 3
    /\ Len(stack) = 3
    /\ lpCalls = 2
    /\ Len(stack[1].add_A_ub) = 1
    /\ SumTo(stack[1].add_A_ub[1], N) = 2
    /\ stack[1].add_b_ub[1] = Unit
    /\ \E b \in 1..N : /\ IsBranch0Of(stack[2], Frame(<<>>, <<>>, <<>>, <<>>, 0), b)
                       /\ IsBranch1Of(stack[3], Frame(<<>>, <<>>, <<>>, <<>>, 0), b)

\* C25 (as claimed, on the count that decides it): the call returns None for
\* a non-empty timetable exactly when the weekly count it computes is below
\* 2 * m, and the claim puts that threshold at ceil(N * p / 100) < 2 * m; the
\* two agree for every number m of instructors with >= 2 sessions that a
\* timetable of N sessions can have.
C25_NullExactlyBelowTwoPerInstructor ==
    (mode = "count" /\ pc = "done") =>
        \A m \in 0..(locals.n \div 2) :
            (result.requiredClassesWeek < 2 * m)
                <=> (CeilDiv(locals.n * d_pct(desired), 10000) < 2 * m)

\* C25 (in the search): a call that has returned has returned None exactly
\* when the timetable is empty or the count the code computed is below 2 * m.
C25_NullByComputedCount ==
    (mode = "integer" /\ pc = "done") =>
        ((result = None) <=>
            (N = 0 \/ required_per_week(N, desired) < 2 * Cardinality(MultiInstructors)))

\* The cover-cut row for x and the LP of the cut child of the node that
\* received frame f.
CutRow(x) == [i \in 1..Len(x) |-> IF i \in StrictlyBetween(x) THEN 1 ELSE 0]

CutChildLP(f, x) ==
    solve_lp(f.add_A_ub \o << CutRow(x) >>, f.add_b_ub \o << FloorOfSum(x) * Unit >>,
             f.add_A_eq, f.add_b_eq)

Branch0Rows(f) ==
    { j \in 1..Len(f.add_A_ub) : SumTo(f.add_A_ub[j], N) = 1 /\ f.add_b_ub[j] = 0 }

VarOf(row) == CHOOSE b \in 1..N : row[b] = 1

\* The variables that carry a standard-branch row in frame f.
BranchedVars(f) ==
    { VarOf(f.add_A_ub[j]) : j \in Branch0Rows(f) }
        \cup { VarOf(f.add_A_eq[j]) : j \in 1..Len(f.add_A_eq) }

\* The rows a call has received are well formed: equalities x_b = 1,
\* inequalities x_b <= 0 or cover cuts, all on pairwise different branch
\* variables, one row per level of the recursion.
PathRows(f) ==
    /\ \A j \in 1..Len(f.add_A_eq) :
          SumTo(f.add_A_eq[j], N) = 1 /\ f.add_b_eq[j] = Unit
    /\ \A j \in 1..Len(f.add_A_ub) :
          j \in Branch0Rows(f) \/ SumTo(f.add_A_ub[j], N) >= 2
    /\ \A i, j \in Branch0Rows(f) :
          VarOf(f.add_A_ub[i]) = VarOf(f.add_A_ub[j]) => i = j
    /\ \A i, j \in 1..Len(f.add_A_eq) :
          VarOf(f.add_A_eq[i]) = VarOf(f.add_A_eq[j]) => i = j
    /\ \A i \in Branch0Rows(f) : \A j \in 1..Len(f.add_A_eq) :
          VarOf(f.add_A_ub[i]) # VarOf(f.add_A_eq[j])
    /\ Cardinality(Branch0Rows(f)) + Len(f.add_A_eq) <= N
    /\ f.depth = Len(f.add_A_ub) + Len(f.add_A_eq)

SimplexResultKeys ==
    {"attendance_fractions", "totalClassesWeek", "totalClassesSemester",
     "requiredClassesSemester", "requiredClassesWeek", "totalSelectedSemester",
     "totalFractionalClassesWeek", "attendancePercentage", "totalValue", "avgValue",
     "instructorStats", "optimal"}

\* x puts its mass on the sessions of highest APS: a session that gets any
\* mass leaves no session of strictly higher APS below 1.
MassOnHighestAps(x) ==
    \A i, j \in 1..N :
        (locals.class_list[i].aps > locals.class_list[j].aps /\ x[j] > 0) => x[i] = Unit

C30_FewestSessionsMeetingTarget ==
    (mode = "count" /\ pc = "done") =>
        /\ result.requiredClassesWeek * 10000 >= d_pct(desired) * locals.n
        /\ (result.requiredClassesWeek - 1) * 10000 < d_pct(desired) * locals.n
        /\ d_pct(desired) = 0 => result.requiredClassesWeek = 0
        /\ result.requiredClassesWeek * 10000 - d_pct(desired) * locals.n < 10000

\* C30 (in the search): a non-null result selects exactly the weekly count
\* the call computed, out of N sessions.
C30_SelectsComputedCount ==
    IntegerDone =>
        /\ result.selectedWeek = required_per_week(N, desired)
        /\ result.totalClassesWeek = N
        /\ result.selectedWeek <= N

====
